---------------------------- MODULE Spec2Model ----------------------------
(***************************************************************************)
(* EmoCrypt: nibble-to-emoji codec, passphrase-seeded alphabet shuffle,    *)
(* AES-GCM envelope and the EmoCrypt facade class.                         *)
(*                                                                         *)
(* Strings are sequences of Unicode code points (a passphrase: of UTF-16   *)
(* code units, all below 65536 here).  A 32-bit word is a pair <<hi, lo>>  *)
(* of 16-bit halves, since the 32-bit results of Math.imul and >>> 0 do    *)
(* not fit the checker's integers.                                         *)
(***************************************************************************)
EXTENDS Integers, Sequences, FiniteSets, TLC

VARIABLES
  emojiSet,    \* this.emojiSet of the EmoCrypt instance
  passphrase,  \* this.passphrase
  rng,         \* how many values the secure random source has produced
  calls,       \* the encryptAndEncode / decryptAndDecode calls made, in order
  last         \* the last synchronous call: its arguments and what it returned

vars == <<emojiSet, passphrase, rng, calls, last>>

-----------------------------------------------------------------------------
(* 32-bit arithmetic of the JavaScript operators ^, |, <<, >>>, Math.imul *)

Half == 256 * 256

\* ^ and | of two 4-bit values, bit by bit
RECURSIVE XorBits(_, _, _)
XorBits(a, b, n) ==
  IF n = 0 THEN 0
  ELSE (((a % 2) + (b % 2)) % 2) + 2 * XorBits(a \div 2, b \div 2, n - 1)

RECURSIVE OrBits(_, _, _)
OrBits(a, b, n) ==
  IF n = 0 THEN 0
  ELSE (IF a % 2 = 1 \/ b % 2 = 1 THEN 1 ELSE 0) + 2 * OrBits(a \div 2, b \div 2, n - 1)

Xor4 == [a \in 0..15 |-> [b \in 0..15 |-> XorBits(a, b, 4)]]
Or4 == [a \in 0..15 |-> [b \in 0..15 |-> OrBits(a, b, 4)]]

\* ^ and | of two 16-bit values, by 4-bit digits
Xor16(a, b) ==
  Xor4[a % 16][b % 16] + 16 * Xor4[(a \div 16) % 16][(b \div 16) % 16]
    + 256 * Xor4[(a \div 256) % 16][(b \div 256) % 16]
    + 4096 * Xor4[(a \div 4096) % 16][(b \div 4096) % 16]

Or16(a, b) ==
  Or4[a % 16][b % 16] + 16 * Or4[(a \div 16) % 16][(b \div 16) % 16]
    + 256 * Or4[(a \div 256) % 16][(b \div 256) % 16]
    + 4096 * Or4[(a \div 4096) % 16][(b \div 4096) % 16]

Pow2(k) == <<1, 2, 4, 8, 16, 32, 64, 128, 256, 512, 1024, 2048, 4096, 8192,
             16384, 32768, 65536>>[k + 1]

Word(hi, lo) == <<hi, lo>>

Xor32(x, y) == <<Xor16(x[1], y[1]), Xor16(x[2], y[2])>>

Or32(x, y) == <<Or16(x[1], y[1]), Or16(x[2], y[2])>>

\* x >>> k, 0 < k < 32
Shr32(x, k) ==
  IF k >= 16 THEN <<0, x[1] \div Pow2(k - 16)>>
  ELSE <<x[1] \div Pow2(k), (x[2] \div Pow2(k)) + (x[1] % Pow2(k)) * Pow2(16 - k)>>

\* x << k, 0 < k < 16
Shl32(x, k) ==
  <<((x[1] * Pow2(k)) % Half) + (x[2] \div Pow2(16 - k)), (x[2] * Pow2(k)) % Half>>

Add32(x, y) ==
  LET lo == x[2] + y[2]
  IN  <<(x[1] + y[1] + (lo \div Half)) % Half, lo % Half>>

\* the 32-bit product of two 16-bit numbers, by 8-bit limbs of b
Mul16(a, b) ==
  LET p1  == a * (b \div 256)
      p0  == a * (b % 256)
      low == (p1 % 256) * 256 + p0
  IN  <<((p1 \div 256) + (low \div Half)) % Half, low % Half>>

\* Math.imul(x, y): the low 32 bits of the product
Imul(x, y) ==
  LET ll    == Mul16(x[2], y[2])
      cross == (Mul16(x[1], y[2])[2] + Mul16(x[2], y[1])[2]) % Half
  IN  <<(ll[1] + cross) % Half, ll[2]>>

-----------------------------------------------------------------------------
(* Seeded RNG helpers (xmur3 + mulberry32) and the shuffle *)

\* the accumulator h of xmur3 after the loop over the first n code units of str
RECURSIVE xmur3Loop(_, _)
xmur3Loop(str, n) ==
  IF n = 0 THEN Xor32(Word(27145, 58983), Word(0, Len(str)))
  ELSE LET h == Imul(Xor32(xmur3Loop(str, n - 1), Word(0, str[n])), Word(52382, 11601))
       IN  Or32(Shl32(h, 13), Shr32(h, 19))

\* xmur3(str)(): the first value of the returned hash function
xmur3(str) ==
  LET h0 == xmur3Loop(str, Len(str))
      h1 == Imul(Xor32(h0, Shr32(h0, 16)), Word(34283, 51819))
      h2 == Imul(Xor32(h1, Shr32(h1, 13)), Word(49842, 44597))
  IN  Xor32(h2, Shr32(h2, 16))

\* the n-th value of mulberry32(a), before the division by 4294967296; each
\* call adds 0x6D2B79F5 to a, so the n-th call works on a + n * 0x6D2B79F5
mulberryState(a, n) == Add32(a, Imul(Word(0, n), Word(27947, 31221)))

mulberry32(a, n) ==
  LET t0 == mulberryState(a, n)
      t1 == Imul(Xor32(t0, Shr32(t0, 15)), Or32(t0, Word(0, 1)))
      t2 == Xor32(t1, Add32(t1, Imul(Xor32(t1, Shr32(t1, 7)), Or32(t1, Word(0, 61)))))
  IN  Xor32(t2, Shr32(t2, 14))

\* Math.floor((u / 4294967296) * m) for a 32-bit u and 0 < m <= 16
FloorScale(u, m) == ((u[1] * m) + ((u[2] * m) \div Half)) \div Half

Swap(arr, i, j) == [arr EXCEPT ![i] = arr[j], ![j] = arr[i]]

\* the Fisher-Yates loop from index i (0-based) down to 1 on the array out,
\* the step for i using the (Len - i)-th value of the generator
RECURSIVE shuffleLoop(_, _, _)
shuffleLoop(out, seed, i) ==
  IF i <= 0 THEN out
  ELSE LET j == FloorScale(mulberry32(seed, Len(out) - i), i + 1)
       IN  shuffleLoop(Swap(out, i + 1, j + 1), seed, i - 1)

seededShuffle(array, pass) == shuffleLoop(array, xmur3(pass), Len(array) - 1)

-----------------------------------------------------------------------------
(* Text encoder/decoder: te = new TextEncoder(), td = new TextDecoder(),   *)
(* the UTF-8 encoder and the non-fatal, BOM-stripping UTF-8 decoder        *)

Replacement == 65533

\* the string built by concatenating the strings of a sequence (join(''))
RECURSIVE Join(_)
Join(strs) == IF Len(strs) = 0 THEN <<>> ELSE Head(strs) \o Join(Tail(strs))

\* the UTF-8 bytes of one code point; a lone surrogate encodes as U+FFFD
EncodeCodePoint(c) ==
  LET cp == IF c >= 55296 /\ c <= 57343 THEN Replacement ELSE c
  IN  IF cp < 128 THEN <<cp>>
      ELSE IF cp < 2048 THEN <<192 + (cp \div 64), 128 + (cp % 64)>>
      ELSE IF cp < 65536
        THEN <<224 + (cp \div 4096), 128 + ((cp \div 64) % 64), 128 + (cp % 64)>>
      ELSE <<240 + (cp \div 262144), 128 + ((cp \div 4096) % 64),
             128 + ((cp \div 64) % 64), 128 + (cp % 64)>>

TextEncode(str) == Join([i \in 1..Len(str) |-> EncodeCodePoint(str[i])])

\* The decoder's state after a lead byte b: the continuation bytes needed, the
\* bits collected and the range allowed for the next byte; needed = 0 when b
\* is not a lead byte.
LeadByte(b) ==
  IF b >= 194 /\ b <= 223 THEN [needed |-> 1, cp |-> b % 32, lower |-> 128, upper |-> 191]
  ELSE IF b >= 224 /\ b <= 239
    THEN [needed |-> 2, cp |-> b % 16,
          lower |-> IF b = 224 THEN 160 ELSE 128, upper |-> IF b = 237 THEN 159 ELSE 191]
  ELSE IF b >= 240 /\ b <= 244
    THEN [needed |-> 3, cp |-> b % 8,
          lower |-> IF b = 240 THEN 144 ELSE 128, upper |-> IF b = 244 THEN 143 ELSE 191]
  ELSE [needed |-> 0, cp |-> 0, lower |-> 128, upper |-> 191]

\* the code points decoded from bytes[i..], the decoder being in state st
\* (needed = 0: between characters); a malformed sequence yields U+FFFD
RECURSIVE Utf8Decode(_, _, _)
Utf8Decode(bytes, i, st) ==
  IF i > Len(bytes) THEN (IF st.needed = 0 THEN <<>> ELSE <<Replacement>>)
  ELSE LET b == bytes[i]
           idle == [needed |-> 0, cp |-> 0, lower |-> 128, upper |-> 191]
       IN  IF st.needed = 0
             THEN IF b < 128 THEN <<b>> \o Utf8Decode(bytes, i + 1, idle)
                  ELSE IF LeadByte(b).needed = 0
                    THEN <<Replacement>> \o Utf8Decode(bytes, i + 1, idle)
                  ELSE Utf8Decode(bytes, i + 1, LeadByte(b))
           ELSE IF b < st.lower \/ b > st.upper
             THEN <<Replacement>> \o Utf8Decode(bytes, i, idle)
           ELSE LET cp == st.cp * 64 + (b % 64)
                IN  IF st.needed = 1 THEN <<cp>> \o Utf8Decode(bytes, i + 1, idle)
                    ELSE Utf8Decode(bytes, i + 1,
                           [needed |-> st.needed - 1, cp |-> cp, lower |-> 128, upper |-> 191])

HasBOM(bytes) == Len(bytes) >= 3 /\ bytes[1] = 239 /\ bytes[2] = 187 /\ bytes[3] = 191

\* td.decode(bytes): ignoreBOM and fatal are both false
TextDecode(bytes) ==
  Utf8Decode(bytes, IF HasBOM(bytes) THEN 4 ELSE 1,
             [needed |-> 0, cp |-> 0, lower |-> 128, upper |-> 191])

-----------------------------------------------------------------------------
(* The codec: buildMaps, emojiEncode, emojiDecode *)

\* Base emoji set (16 entries = 4-bit nibble), each entry one code point
BASE_EMO ==
  << <<128512>>, <<128513>>, <<128514>>, <<129315>>, <<128515>>, <<128516>>,
     <<128517>>, <<128518>>, <<128521>>, <<128522>>, <<128523>>, <<128526>>,
     <<128525>>, <<128536>>, <<129392>>, <<128535>> >>

\* the value undefined, and what string concatenation makes of it
Undefined == <<-2>>
UndefinedText == <<117, 110, 100, 101, 102, 105, 110, 101, 100>>
NaNText == <<78, 97, 78>>

Ok(v) == [ok |-> TRUE, value |-> v, error |-> "none"]
Thrown(e) == [ok |-> FALSE, value |-> <<>>, error |-> e]

\* buildMaps(emojiArr).encMap.get(n)
encMapGet(emojiArr, n) == IF n < Len(emojiArr) THEN emojiArr[n + 1] ELSE Undefined

\* buildMaps(emojiArr).decMap.get(c): a later entry overwrites an equal earlier one
decMapGet(emojiArr, c) ==
  LET at == {i \in 1..Len(emojiArr) : emojiArr[i] = c}
  IN  IF at = {} THEN Undefined ELSE <<(CHOOSE i \in at : \A k \in at : k <= i) - 1>>

\* a + b where each is a string or undefined
JsPlus(a, b) ==
  IF a = Undefined /\ b = Undefined THEN NaNText
  ELSE (IF a = Undefined THEN UndefinedText ELSE a)
         \o (IF b = Undefined THEN UndefinedText ELSE b)

\* (a slip: the low nibble first)
EncodeByteLowFirst(emojiArr, b) ==
  JsPlus(encMapGet(emojiArr, b % 16), encMapGet(emojiArr, b \div 16))

\* the two emoji of one byte (high nibble, low nibble)
EncodeByte(emojiArr, b) == JsPlus(encMapGet(emojiArr, b \div 16), encMapGet(emojiArr, b % 16))

emojiEncode(str, emojiArr) ==
  LET bytes == TextEncode(str)
  IN  Join([k \in 1..Len(bytes) |-> EncodeByte(emojiArr, bytes[k])])

\* (hi << 4) | lo stored into a Uint8Array
PackByte(hi, lo) == Or16(hi * 16, lo) % 256

\* (a slip: unknown symbols skipped and an odd last symbol dropped)
emojiDecodeLenient(emojiStr, emojiArr) ==
  LET known == SelectSeq(emojiStr, LAMBDA c : decMapGet(emojiArr, <<c>>) # Undefined)
      nibbles == [k \in 1..Len(known) |-> decMapGet(emojiArr, <<known[k]>>)]
  IN  Ok(TextDecode([j \in 1..(Len(nibbles) \div 2) |->
                       PackByte(nibbles[2 * j - 1][1], nibbles[2 * j][1])]))

emojiDecode(emojiStr, emojiArr) ==
  LET nibbles == [k \in 1..Len(emojiStr) |-> decMapGet(emojiArr, <<emojiStr[k]>>)]
  IN  IF \E k \in 1..Len(emojiStr) : nibbles[k] = Undefined
        THEN Thrown("Unknown emoji encountered")
      ELSE IF Len(nibbles) % 2 # 0
        THEN Thrown("Invalid emoji string length")
      ELSE Ok(TextDecode([j \in 1..(Len(nibbles) \div 2) |->
                            PackByte(nibbles[2 * j - 1][1], nibbles[2 * j][1])]))

-----------------------------------------------------------------------------
(* base64: btoa(String.fromCharCode(...buf)) and atob(b64) *)

\* the character of a 6-bit value: A-Z a-z 0-9 + /
B64Char(v) ==
  IF v < 26 THEN 65 + v
  ELSE IF v < 52 THEN 97 + (v - 26)
  ELSE IF v < 62 THEN 48 + (v - 52)
  ELSE IF v = 62 THEN 43 ELSE 47

\* the 6-bit value of a character, -1 when it is not in the alphabet
B64Value(c) ==
  IF c >= 65 /\ c <= 90 THEN c - 65
  ELSE IF c >= 97 /\ c <= 122 THEN c - 97 + 26
  ELSE IF c >= 48 /\ c <= 57 THEN c - 48 + 52
  ELSE IF c = 43 THEN 62
  ELSE IF c = 47 THEN 63 ELSE -1

RECURSIVE btoa(_)
btoa(bytes) ==
  IF Len(bytes) = 0 THEN <<>>
  ELSE IF Len(bytes) = 1
    THEN <<B64Char(bytes[1] \div 4), B64Char((bytes[1] % 4) * 16), 61, 61>>
  ELSE IF Len(bytes) = 2
    THEN <<B64Char(bytes[1] \div 4),
           B64Char((bytes[1] % 4) * 16 + (bytes[2] \div 16)),
           B64Char((bytes[2] % 16) * 4), 61>>
  ELSE <<B64Char(bytes[1] \div 4),
         B64Char((bytes[1] % 4) * 16 + (bytes[2] \div 16)),
         B64Char((bytes[2] % 16) * 4 + (bytes[3] \div 64)),
         B64Char(bytes[3] % 64)>> \o btoa(SubSeq(bytes, 4, Len(bytes)))

IsAsciiSpace(c) == c \in {9, 10, 12, 13, 32}

\* the bytes of the 6-bit values v, 4 values to 3 bytes, the bits left over dropped
RECURSIVE B64Bytes(_)
B64Bytes(v) ==
  IF Len(v) < 2 THEN <<>>
  ELSE IF Len(v) = 2 THEN <<v[1] * 4 + (v[2] \div 16)>>
  ELSE IF Len(v) = 3
    THEN <<v[1] * 4 + (v[2] \div 16), (v[2] % 16) * 16 + (v[3] \div 4)>>
  ELSE <<v[1] * 4 + (v[2] \div 16), (v[2] % 16) * 16 + (v[3] \div 4),
         (v[3] % 4) * 64 + v[4]>> \o B64Bytes(SubSeq(v, 5, Len(v)))

\* atob(b64), the forgiving-base64 decode: white space removed, one or two
\* padding characters removed from a length that is a multiple of 4, then a
\* length of 1 mod 4 or a character outside the alphabet is an error
atob(b64) ==
  LET nospace == SelectSeq(b64, LAMBDA c : ~IsAsciiSpace(c))
      n == Len(nospace)
      pad == IF n % 4 = 0 /\ n > 0 /\ nospace[n] = 61
               THEN (IF nospace[n - 1] = 61 THEN 2 ELSE 1) ELSE 0
      data == SubSeq(nospace, 1, n - pad)
  IN  IF Len(data) % 4 = 1 \/ \E k \in 1..Len(data) : B64Value(data[k]) = -1
        THEN Thrown("InvalidCharacterError")
      ELSE Ok(B64Bytes([k \in 1..Len(data) |-> B64Value(data[k])]))

-----------------------------------------------------------------------------
(* The external collaborators: the secure random source, PBKDF2, AES-GCM *)

IvLen == 12
SaltLen == 16
TagLen == 16

\* crypto.getRandomValues(new Uint8Array(n)): the r-th value of a source that
\* does not repeat values
RandomBytes(n, r) == [i \in 1..n |-> (r + 37 * (i - 1)) % 256]

\* deriveKeyFromPassword(pass, salt): PBKDF2 is deterministic in the UTF-8
\* bytes of the password and the salt
deriveKeyFromPassword(pass, salt) == [pw |-> TextEncode(pass), salt |-> salt]

RECURSIVE SumRange(_, _, _)
SumRange(seq, lo, hi) ==
  IF lo > hi THEN 0
  ELSE IF lo = hi THEN seq[lo]
  ELSE SumRange(seq, lo, (lo + hi) \div 2) + SumRange(seq, ((lo + hi) \div 2) + 1, hi)

Sum(seq) == SumRange(seq, 1, Len(seq))

\* the material the cipher's keystream and tag depend on
KeyBytes(key) == key.pw \o <<Len(key.pw)>> \o key.salt

KeyStream(key, iv, i) == (Sum(KeyBytes(key)) + 3 * Sum(iv) + 11 * i) % 256

GcmBody(key, iv, pt) == [i \in 1..Len(pt) |-> (pt[i] + KeyStream(key, iv, i)) % 256]

\* the authentication tag over key, nonce and ciphertext
GcmTag(key, iv, body) ==
  LET m == KeyBytes(key) \o iv \o <<Len(body)>> \o body
  IN  [j \in 1..TagLen |-> Sum([i \in 1..Len(m) |-> (m[i] * (1 + ((i * j) % 251))) % 256]) % 256]

\* crypto.subtle.encrypt({name: 'AES-GCM', iv}, key, pt): ciphertext, then tag
GcmEncrypt(key, iv, pt) ==
  LET body == GcmBody(key, iv, pt) IN body \o GcmTag(key, iv, body)

\* crypto.subtle.decrypt: rejects with OperationError unless the tag verifies
GcmDecrypt(key, iv, ct) ==
  IF Len(ct) < TagLen THEN Thrown("OperationError")
  ELSE LET body == SubSeq(ct, 1, Len(ct) - TagLen)
           tag  == SubSeq(ct, Len(ct) - TagLen + 1, Len(ct))
       IN  IF tag # GcmTag(key, iv, body) THEN Thrown("OperationError")
           ELSE Ok([i \in 1..Len(body) |-> (body[i] + 256 - KeyStream(key, iv, i)) % 256])

-----------------------------------------------------------------------------
(* aesEncrypt / aesDecrypt *)

\* JavaScript's slice(from) and slice(from, to) of a typed array, 0-based
Slice(arr, from, to) ==
  LET t == IF to > Len(arr) THEN Len(arr) ELSE to
  IN  IF from >= t THEN <<>> ELSE SubSeq(arr, from + 1, t)

\* (a slip: one salt for every call)
aesEncryptDrawFixedSalt(r) ==
  [iv |-> RandomBytes(IvLen, r), salt |-> RandomBytes(SaltLen, 1)]

\* the iv and the salt aesEncrypt draws, the source having produced r values
aesEncryptDraw(r) == [iv |-> RandomBytes(IvLen, r), salt |-> RandomBytes(SaltLen, r + 1)]

\* aesEncrypt after its draws: key derivation, encryption, salt || iv || ct, base64
aesEncryptFinish(plaintext, password, iv, salt) ==
  LET key == deriveKeyFromPassword(password, salt)
      ct  == GcmEncrypt(key, iv, TextEncode(plaintext))
  IN  btoa(salt \o iv \o ct)

\* aesDecrypt: [ok, value, error] and whether the cipher verified the tag
aesDecrypt(b64, password) ==
  LET raw == atob(b64) IN
  IF ~raw.ok THEN [out |-> raw, cipher |-> "not run"]
  ELSE LET salt == Slice(raw.value, 0, 16)
           iv   == Slice(raw.value, 16, 28)
           ct   == Slice(raw.value, 28, Len(raw.value))
           pt   == GcmDecrypt(deriveKeyFromPassword(password, salt), iv, ct)
       IN  IF ~pt.ok THEN [out |-> pt, cipher |-> "rejected"]
           ELSE [out |-> Ok(TextDecode(pt.value)), cipher |-> "verified"]

-----------------------------------------------------------------------------
(* The EmoCrypt class *)

\* the passphrase null (the constructor's default)
Null == <<-1>>

\* a passphrase in a condition: null and the empty string are falsy
Truthy(pass) == pass # Null /\ Len(pass) > 0

\* (a slip: only null taken as no passphrase)
alphabetForNullOnly(pass) ==
  IF pass # Null THEN seededShuffle(BASE_EMO, pass) ELSE BASE_EMO

\* the emoji set the constructor and setPassphrase install
alphabetFor(pass) == IF Truthy(pass) THEN seededShuffle(BASE_EMO, pass) ELSE BASE_EMO

VersionTag == <<65, 69, 83, 118, 49, 58>>

startsWith(str, prefix) ==
  Len(str) >= Len(prefix) /\ SubSeq(str, 1, Len(prefix)) = prefix

\* A call record: the arguments, arr the emoji set at the call, used the emoji
\* set the codec ran with, mid the encoded text (the decrypted symbols), out
\* what the promise settled with.
\* encryptAndEncode up to its first await: the text encoded with the emoji set
\* of the moment, and aesEncrypt's draws
encryptAndEncodeBegin(text, password, emojiArr, r) ==
  [op |-> "encryptAndEncode", state |-> "awaiting", arg |-> text, password |-> password,
   arr |-> emojiArr, used |-> emojiArr, mid |-> emojiEncode(text, emojiArr),
   iv |-> aesEncryptDraw(r).iv, salt |-> aesEncryptDraw(r).salt,
   out |-> Thrown("pending"), cipher |-> "not run", decoded |-> FALSE]

\* encryptAndEncode resumed: the token
encryptAndEncodeEnd(call) ==
  [call EXCEPT !.state = "done",
               !.out = Ok(VersionTag \o aesEncryptFinish(call.mid, call.password,
                                                         call.iv, call.salt))]

\* decryptAndDecode up to its first await: the prefix check, then aesDecrypt's
\* atob; either may throw, which settles the call at once
decryptAndDecodeBegin(encryptedText, password, emojiArr) ==
  LET call == [op |-> "decryptAndDecode", state |-> "awaiting", arg |-> encryptedText,
               password |-> password, arr |-> emojiArr, used |-> <<>>, mid |-> <<>>,
               iv |-> <<>>, salt |-> <<>>,
               out |-> Thrown("pending"), cipher |-> "not run", decoded |-> FALSE]
  IN  IF ~startsWith(encryptedText, VersionTag)
        THEN [call EXCEPT !.state = "done", !.out = Thrown("Invalid encrypted format")]
      ELSE IF ~atob(Slice(encryptedText, 6, Len(encryptedText))).ok
        THEN [call EXCEPT !.state = "done",
                          !.out = atob(Slice(encryptedText, 6, Len(encryptedText)))]
      ELSE call

\* (a slip: a failed decryption caught and decoded as no symbols)
decryptAndDecodeEndCaught(call, emojiArr) ==
  LET d == aesDecrypt(Slice(call.arg, 6, Len(call.arg)), call.password)
      symbols == IF d.out.ok THEN d.out.value ELSE <<>>
  IN  [call EXCEPT !.state = "done", !.out = emojiDecode(symbols, emojiArr),
                   !.cipher = d.cipher, !.used = emojiArr, !.mid = symbols,
                   !.decoded = TRUE]

\* decryptAndDecode resumed: aesDecrypt's result, decoded with the emoji set of
\* the moment unless aesDecrypt threw
decryptAndDecodeEnd(call, emojiArr) ==
  LET d == aesDecrypt(Slice(call.arg, 6, Len(call.arg)), call.password)
  IN  IF ~d.out.ok
        THEN [call EXCEPT !.state = "done", !.out = d.out, !.cipher = d.cipher]
      ELSE [call EXCEPT !.state = "done", !.out = emojiDecode(d.out.value, emojiArr),
                        !.cipher = d.cipher, !.used = emojiArr, !.mid = d.out.value,
                        !.decoded = TRUE]

-----------------------------------------------------------------------------
(* Bounds and the inputs drawn *)

MaxTextLen == 2
MaxSymbols == 3
MaxPassLen == 1
MaxCalls == 2

\* 'A', e-acute (2 bytes), a CJK character (3 bytes), a globe (4 bytes), U+FEFF
TextChars == {65, 233, 20013, 127757, 65279}

RECURSIVE SeqsUpTo(_, _)
SeqsUpTo(S, n) ==
  IF n = 0 THEN {<<>>}
  ELSE LET shorter == SeqsUpTo(S, n - 1)
       IN  shorter \cup {Append(q, c) : q \in {t \in shorter : Len(t) = n - 1}, c \in S}

Texts == SeqsUpTo(TextChars, MaxTextLen)

PassChars == {97, 98}
Passphrases == {Null} \cup SeqsUpTo(PassChars, MaxPassLen)

\* the README's custom emoji set
AnimalSet ==
  << <<128054>>, <<128049>>, <<128045>>, <<128057>>, <<128048>>, <<129418>>,
     <<128059>>, <<128060>>, <<128040>>, <<128047>>, <<129409>>, <<128056>>,
     <<128053>>, <<128584>>, <<128585>>, <<128586>> >>

\* custom emoji arrays that are no alphabet: 15 entries, 17 entries, a duplicate
BadAlphabets ==
  {SubSeq(BASE_EMO, 1, 15), Append(BASE_EMO, <<128054>>),
   [BASE_EMO EXCEPT ![16] = BASE_EMO[1]]}

\* the default alphabet and the alphabets shuffled from a passphrase
PassphraseAlphabets ==
  {BASE_EMO} \cup {seededShuffle(BASE_EMO, p) : p \in Passphrases \ {Null}}

CodecAlphabets == PassphraseAlphabets \cup {AnimalSet} \cup BadAlphabets

\* symbols for raw decoder input: nibbles 0 and 8 of the default alphabet, an
\* emoji of no alphabet but the animals, and a letter
SymbolPool == {128512, 128521, 128054, 65}
SymbolStrings == SeqsUpTo(SymbolPool, MaxSymbols)

FacadeTexts == {<<>>, <<65>>, <<233, 65279>>}
FacadeSymbols == {<<128512>>, <<128521, 128512>>, <<128515, 128513>>, <<65, 65>>}

EnvelopeTexts == {<<65>>, <<65279, 65>>}
Passwords == {<<112>>, <<113, 233>>}
EnvelopePassphrases == {Null, <<97>>}

\* a token already returned, with one byte of its payload changed
Tamper(token, pos) ==
  LET raw == atob(Slice(token, 6, Len(token))).value
  IN  VersionTag \o btoa([raw EXCEPT ![pos] = (@ + 1) % 256])

\* a token already returned, its payload cut to n bytes
Truncate(token, n) ==
  VersionTag \o btoa(SubSeq(atob(Slice(token, 6, Len(token))).value, 1, n))

PayloadLen(token) == Len(atob(Slice(token, 6, Len(token))).value)

\* the encryptAndEncode calls that returned a token
Returned(cs) ==
  {i \in 1..Len(cs) : cs[i].op = "encryptAndEncode" /\ cs[i].state = "done"}

\* no version tag, another version, the tag alone, 10 bytes, no base64
MalformedTokens ==
  {emojiEncode(<<65>>, BASE_EMO),
   <<65, 69, 83, 118, 50, 58>> \o btoa(RandomBytes(44, 7)),
   VersionTag,
   VersionTag \o btoa(RandomBytes(10, 3)),
   VersionTag \o <<33, 33, 33, 33>>}

\* what decryptAndDecode is called with: a returned token with any password;
\* with its own password, that token with its first ciphertext byte or its
\* last tag byte changed, or cut inside the tag; a malformed token
DecryptInputs(cs) ==
  {<<cs[i].out.value, pw>> : i \in Returned(cs), pw \in Passwords}
    \cup {<<Tamper(cs[i].out.value, SaltLen + IvLen + 1), cs[i].password>> :
             i \in Returned(cs)}
    \cup {<<Tamper(cs[i].out.value, PayloadLen(cs[i].out.value)), cs[i].password>> :
             i \in Returned(cs)}
    \cup {<<Truncate(cs[i].out.value, SaltLen + IvLen + 2), cs[i].password>> :
             i \in Returned(cs)}
    \cup {<<t, <<112>> >> : t \in MalformedTokens}

-----------------------------------------------------------------------------
(* The state machine *)

NoCall == [op |-> "none", arg |-> <<>>, arr |-> <<>>, pass |-> Null,
           out |-> Thrown("none"), src |-> Null]

\* alphabetFor, tabulated over the passphrases drawn
AlphabetTable == [p \in Passphrases |-> alphabetFor(p)]

\* new EmoCrypt()
Init ==
  /\ emojiSet = AlphabetTable[Null]
  /\ passphrase = Null
  /\ rng = 0
  /\ calls = <<>>
  /\ last = NoCall

\* emojiEncode(text, arr)
EmojiEncode(text, arr) ==
  /\ last' = [op |-> "emojiEncode", arg |-> text, arr |-> arr, pass |-> Null,
              out |-> Ok(emojiEncode(text, arr)), src |-> Null]
  /\ UNCHANGED <<emojiSet, passphrase, rng, calls>>

\* emojiDecode(symbols, arr)
EmojiDecode(symbols, arr) ==
  /\ last' = [op |-> "emojiDecode", arg |-> symbols, arr |-> arr, pass |-> Null,
              out |-> emojiDecode(symbols, arr), src |-> Null]
  /\ UNCHANGED <<emojiSet, passphrase, rng, calls>>

\* emojiDecode(encoded, arr) of what emojiEncode(text, arr) just returned
EmojiDecodeEncoded ==
  /\ last.op = "emojiEncode"
  /\ last' = [op |-> "emojiDecode", arg |-> last.out.value, arr |-> last.arr,
              pass |-> Null, out |-> emojiDecode(last.out.value, last.arr),
              src |-> last.arg]
  /\ UNCHANGED <<emojiSet, passphrase, rng, calls>>

\* new EmoCrypt(p), taking the place of the instance
Construct(p) ==
  /\ emojiSet' = AlphabetTable[p]
  /\ passphrase' = p
  /\ UNCHANGED <<rng, calls, last>>

\* setPassphrase(p)
SetPassphrase(p) ==
  /\ passphrase' = p
  /\ emojiSet' = AlphabetTable[p]
  /\ UNCHANGED <<rng, calls, last>>

\* encode(text)
Encode(text) ==
  /\ last' = [op |-> "encode", arg |-> text, arr |-> emojiSet, pass |-> passphrase,
              out |-> Ok(emojiEncode(text, emojiSet)), src |-> Null]
  /\ UNCHANGED <<emojiSet, passphrase, rng, calls>>

\* decode(symbols)
Decode(symbols) ==
  /\ last' = [op |-> "decode", arg |-> symbols, arr |-> emojiSet, pass |-> passphrase,
              out |-> emojiDecode(symbols, emojiSet), src |-> Null]
  /\ UNCHANGED <<emojiSet, passphrase, rng, calls>>

\* decode(encoded) of what encode(text) just returned
DecodeEncoded ==
  /\ last.op = "encode"
  /\ last' = [op |-> "decode", arg |-> last.out.value, arr |-> emojiSet,
              pass |-> passphrase, out |-> emojiDecode(last.out.value, emojiSet),
              src |-> last.arg]
  /\ UNCHANGED <<emojiSet, passphrase, rng, calls>>

\* getEmojiSet(): a copy of the emoji set
GetEmojiSet ==
  /\ last' = [op |-> "getEmojiSet", arg |-> <<>>, arr |-> emojiSet, pass |-> passphrase,
              out |-> Ok(emojiSet), src |-> Null]
  /\ UNCHANGED <<emojiSet, passphrase, rng, calls>>

\* encryptAndEncode(text, password), to its first await
EncryptAndEncode(text, password) ==
  /\ Len(calls) < MaxCalls
  /\ calls' = Append(calls, encryptAndEncodeBegin(text, password, emojiSet, rng))
  /\ rng' = rng + 2
  /\ UNCHANGED <<emojiSet, passphrase, last>>

\* decryptAndDecode(token, password), to its first await
DecryptAndDecode(token, password) ==
  /\ Len(calls) < MaxCalls
  /\ calls' = Append(calls, decryptAndDecodeBegin(token, password, emojiSet))
  /\ UNCHANGED <<emojiSet, passphrase, rng, last>>

\* the i-th call resumes after its awaits and settles
Resume(i) ==
  /\ calls[i].state = "awaiting"
  /\ calls' = [calls EXCEPT ![i] =
                 IF calls[i].op = "encryptAndEncode" THEN encryptAndEncodeEnd(calls[i])
                 ELSE decryptAndDecodeEnd(calls[i], emojiSet)]
  /\ UNCHANGED <<emojiSet, passphrase, rng, last>>

\* The stand-alone functions keep no state: a behaviour of NextCodec is one
\* call, and for emojiEncode the decoding of what it returned.
NextCodec ==
  \/ \E text \in Texts, arr \in CodecAlphabets :
       last.op = "none" /\ EmojiEncode(text, arr)
  \/ \E symbols \in SymbolStrings, arr \in CodecAlphabets :
       last.op = "none" /\ EmojiDecode(symbols, arr)
  \/ EmojiDecodeEncoded

NextFacade ==
  \/ \E p \in Passphrases : Construct(p)
  \/ \E p \in Passphrases : SetPassphrase(p)
  \/ \E text \in FacadeTexts : Encode(text)
  \/ \E symbols \in FacadeSymbols : Decode(symbols)
  \/ DecodeEncoded
  \/ GetEmojiSet

NextEnvelope ==
  \/ \E p \in EnvelopePassphrases : SetPassphrase(p)
  \/ \E text \in EnvelopeTexts, password \in Passwords : EncryptAndEncode(text, password)
  \/ \E input \in DecryptInputs(calls) : DecryptAndDecode(input[1], input[2])
  \/ \E i \in 1..Len(calls) : Resume(i)

Next == NextCodec \/ NextFacade \/ NextEnvelope

\* the stand-alone functions
SpecCodec == Init /\ [][NextCodec]_vars

\* the synchronous methods of the class
SpecFacade == Init /\ [][NextFacade]_vars

\* the asynchronous methods of the class, with setPassphrase between their steps
SpecEnvelope == Init /\ [][NextEnvelope]_vars

Spec == Init /\ [][Next]_vars

-----------------------------------------------------------------------------
(* The error kinds of the design, as the code raises them: an Error with a *)
(* message, or the exception of a collaborator                             *)

UnknownSymbolError == "Unknown emoji encountered"
MalformedLengthError == "Invalid emoji string length"
InvalidFormatError == "Invalid encrypted format"
AuthenticationError == "OperationError"

\* an alphabet: exactly 16 symbols, no two alike
ValidAlphabet(arr) ==
  Len(arr) = 16 /\ \A i, j \in 1..Len(arr) : i # j => arr[i] # arr[j]

InAlphabet(c, arr) == \E i \in 1..Len(arr) : arr[i] = <<c>>

WellFormed(symbols, arr) ==
  Len(symbols) % 2 = 0 /\ \A k \in 1..Len(symbols) : InAlphabet(symbols[k], arr)

IndexOf(c, arr) == (CHOOSE i \in 1..Len(arr) : arr[i] = <<c>>) - 1

\* the bytes a well-formed symbol string of a valid alphabet stands for
BytesOf(symbols, arr) ==
  [j \in 1..(Len(symbols) \div 2) |->
     16 * IndexOf(symbols[2 * j - 1], arr) + IndexOf(symbols[2 * j], arr)]

\* bytes that are the UTF-8 encoding of some text
ValidUtf8(bytes) ==
  TextEncode(Utf8Decode(bytes, 1, [needed |-> 0, cp |-> 0, lower |-> 128, upper |-> 191]))
    = bytes

-----------------------------------------------------------------------------
(* The stand-alone codec (SpecCodec) *)

\* C1: emojiDecode(emojiEncode(x, A), A) returns exactly x, for every text x
\* and every alphabet A that is the default one or shuffled from a passphrase.
C1_RoundTrip ==
  (last.op = "emojiDecode" /\ last.src # Null /\ last.arr \in PassphraseAlphabets)
    => last.out = Ok(last.src)

\* The round trip holds of every text that does not begin with U+FEFF, which
\* the decoder drops as a byte order mark.
RoundTripUnlessBOM ==
  (last.op = "emojiDecode" /\ last.src # Null /\ last.arr \in PassphraseAlphabets)
    => last.out = Ok(IF Len(last.src) > 0 /\ last.src[1] = 65279
                       THEN Tail(last.src) ELSE last.src)

C7_InvalidTextRejected ==
  (last.op = "emojiDecode" /\ ValidAlphabet(last.arr)
     /\ WellFormed(last.arg, last.arr) /\ ~ValidUtf8(BytesOf(last.arg, last.arr)))
    => last.out = Thrown("InvalidTextEncodingError")

\* C8: emojiEncode and emojiDecode called with an emoji array whose size is
\* not 16 or that holds a duplicate fail with ConfigurationError.
C8_BadAlphabetRejected ==
  (last.op \in {"emojiEncode", "emojiDecode"} /\ ~ValidAlphabet(last.arr))
    => last.out = Thrown("ConfigurationError")

-----------------------------------------------------------------------------
(* The class: its alphabet (SpecFacade) *)

FacadeOps == {"encode", "decode", "getEmojiSet"}

AlphabetOf(p) ==
  IF p = Null \/ p = <<>> THEN BASE_EMO ELSE seededShuffle(BASE_EMO, p)

\* seededShuffle(BASE_EMO, "a"), computed from the source's algorithm in
\* 64-bit arithmetic: the indices into BASE_EMO
ShuffledByA == <<12, 2, 13, 3, 11, 10, 0, 9, 5, 14, 15, 7, 6, 4, 8, 1>>

-----------------------------------------------------------------------------
(* The envelope (SpecEnvelope) *)

Encrypts == {i \in 1..Len(calls) : calls[i].op = "encryptAndEncode"}
Decrypts == {j \in 1..Len(calls) : calls[j].op = "decryptAndDecode"}
Settled(I) == {i \in I : calls[i].state = "done"}

Payload(token) == atob(Slice(token, 6, Len(token)))

\* decryption j is of the token encryption i returned, with its password, on
\* an instance whose emoji set is, at the call and at the decoding, the one
\* encryption i encoded with
Unwraps(j, i) ==
  /\ calls[j].arg = calls[i].out.value
  /\ calls[j].password = calls[i].password
  /\ calls[j].arr = calls[i].arr
  /\ calls[j].used = calls[i].arr

\* the token of encryption i is "AESv1:" and the base64 of salt (16 bytes),
\* nonce (12 bytes), ciphertext with tag
TokenLayout(i) ==
  LET token == calls[i].out.value
      raw == Payload(token).value
  IN  /\ startsWith(token, VersionTag)
      /\ token = VersionTag \o btoa(raw)
      /\ Len(calls[i].salt) = 16 /\ Len(calls[i].iv) = 12
      /\ Len(raw) = 28 + Len(TextEncode(calls[i].mid)) + TagLen
      /\ SubSeq(raw, 1, 16) = calls[i].salt
      /\ SubSeq(raw, 17, 28) = calls[i].iv

\* C4: decryptAndDecode(encryptAndEncode(x, pw), pw) on a facade with the
\* same passphrase returns x, for every text x, the token being "AESv1:" and
\* the base64 of salt(16) || nonce(12) || ciphertext-with-tag.
C4_EnvelopeRoundTrip ==
  \A i \in Settled(Encrypts) :
    /\ TokenLayout(i)
    /\ \A j \in Settled(Decrypts) : Unwraps(j, i) => calls[j].out = Ok(calls[i].arg)

\* The envelope round trip holds of every text that does not begin with
\* U+FEFF, which the symbol decoder's text decoder drops.
EnvelopeRoundTripUnlessBOM ==
  \A i \in Settled(Encrypts) :
    /\ TokenLayout(i)
    /\ \A j \in Settled(Decrypts) :
         Unwraps(j, i) =>
           calls[j].out = Ok(IF Len(calls[i].arg) > 0 /\ calls[i].arg[1] = 65279
                               THEN Tail(calls[i].arg) ELSE calls[i].arg)

\* decryption j is of the token of encryption i with another password, or of
\* that token with a byte of its ciphertext or tag changed
WrongPassword(j, i) ==
  calls[j].arg = calls[i].out.value /\ calls[j].password # calls[i].password

Tampered(j, i) ==
  calls[j].arg \in {Tamper(calls[i].out.value, SaltLen + IvLen + 1),
                    Tamper(calls[i].out.value, PayloadLen(calls[i].out.value))}

\* C5: whenever the cipher reports that the tag does not verify (another
\* password than at wrap time, or a changed byte of the ciphertext portion),
\* decryptAndDecode fails with AuthenticationError and returns no text: the
\* symbol decoder is never run on unauthenticated data.
C5_AuthenticationFailure ==
  \A j \in Settled(Decrypts) :
    /\ calls[j].cipher = "rejected" =>
         /\ calls[j].out = Thrown(AuthenticationError)
         /\ ~calls[j].decoded
         /\ calls[j].used = <<>>
    /\ calls[j].decoded => calls[j].cipher = "verified"
    /\ \A i \in Settled(Encrypts) :
         (WrongPassword(j, i) \/ Tampered(j, i)) => calls[j].cipher = "rejected"

C5_Witness ==
  \E j \in Settled(Decrypts), i \in Settled(Encrypts) :
    /\ WrongPassword(j, i)
    /\ calls[j].cipher = "rejected"
    /\ calls[j].out = Thrown(AuthenticationError)

\* C6: decryptAndDecode fails with InvalidFormatError whenever the token does
\* not start with "AESv1:", and whenever the payload after the tag decodes to
\* fewer than 28 bytes; in both cases with no other error.
C6_InvalidFormat ==
  \A j \in Settled(Decrypts) :
    /\ ~startsWith(calls[j].arg, VersionTag)
         => calls[j].out = Thrown(InvalidFormatError)
    /\ (startsWith(calls[j].arg, VersionTag) /\ Payload(calls[j].arg).ok
          /\ Len(Payload(calls[j].arg).value) < SaltLen + IvLen)
         => calls[j].out = Thrown(InvalidFormatError)

\* the k-th value of the random source, as a salt and as a nonce
Position(i) == Cardinality({k \in Encrypts : k < i})

\* C10: every encryptAndEncode call draws its own new 16-byte salt and 12-byte
\* nonce from the random source during the call, none drawn by an earlier
\* call; the source not repeating, any two calls, even with the same text and
\* password, have different salts, different nonces and different tokens.
C10_FreshSaltAndNonce ==
  /\ rng = 2 * Cardinality(Encrypts)
  /\ \A i \in Encrypts :
       /\ calls[i].iv = RandomBytes(12, 2 * Position(i))
       /\ calls[i].salt = RandomBytes(16, 2 * Position(i) + 1)
       /\ calls[i].state = "done" =>
            /\ SubSeq(Payload(calls[i].out.value).value, 1, 16) = calls[i].salt
            /\ SubSeq(Payload(calls[i].out.value).value, 17, 28) = calls[i].iv
  /\ \A i, j \in Encrypts :
       i # j =>
         /\ calls[i].salt # calls[j].salt
         /\ calls[i].iv # calls[j].iv
         /\ (calls[i].state = "done" /\ calls[j].state = "done")
              => calls[i].out.value # calls[j].out.value

C10_Witness ==
  \E i, j \in Settled(Encrypts) :
    /\ i # j
    /\ calls[i].arg = calls[j].arg
    /\ calls[i].password = calls[j].password
    /\ calls[i].arr = calls[j].arr
    /\ calls[i].out.value # calls[j].out.value

\* what call i returns when nothing runs between its invocation and its
\* completion: the emoji set of the invocation does the encoding or the decoding
InvocationResult(i) ==
  IF calls[i].op = "encryptAndEncode"
    THEN Ok(VersionTag \o aesEncryptFinish(emojiEncode(calls[i].arg, calls[i].arr),
                                           calls[i].password, calls[i].iv, calls[i].salt))
  ELSE IF calls[i].decoded THEN emojiDecode(calls[i].mid, calls[i].arr)
  ELSE calls[i].out

\* C11: an asynchronous call of the class works with the emoji set the
\* instance had when the call was made: whatever setPassphrase does while the
\* call awaits, a settled encryptAndEncode or decryptAndDecode has the result
\* it would have had with setPassphrase run only after it completed.
C11_InvocationAlphabet ==
  \A i \in Settled(Encrypts \cup Decrypts) : calls[i].out = InvocationResult(i)

=============================================================================
